---- MODULE Spec2Model ----
(***************************************************************************)
(* Model of src/secretfile.rs: the Secretfile parser (Secretfile::read),   *)
(* the environment interpolator (interpolate_env_vars) and the lookup      *)
(* (Secretfile::get).                                                      *)
(*                                                                         *)
(* Text is a sequence of one-character strings.  The input of read is the  *)
(* sequence of items that BufRead::lines() yields: each item is a line     *)
(* (newline already stripped) or an I/O error.  The process environment is *)
(* a function from the defined variable names to their values.             *)
(***************************************************************************)
EXTENDS Integers, Sequences, FiniteSets, TLC

VARIABLES env, input, pos, caps, mappings, pc, ret, text, interpolated

vars == <<env, input, pos, caps, mappings, pc, ret, text, interpolated>>

(***************************************************************************)
(* Bounds of the model.                                                    *)
(***************************************************************************)
MaxLines == 2
MaxLineLen == 5
MaxTextLen == 4

(***************************************************************************)
(* Character classes of the two regular expressions.                       *)
(***************************************************************************)
Whitespace == {" ", "\t"}
Letters == {"A", "B", "M", "N", "k", "p", "q", "v", "w"}
Digits == {"1"}

\* \s
IsSpace(c) == c \in Whitespace

\* [a-zA-Z_]
IsIdentStart(c) == c \in Letters \cup {"_"}

\* [a-zA-Z0-9_]
IsIdentCont(c) == IsIdentStart(c) \/ c \in Digits

(***************************************************************************)
(* Option and Result values.                                               *)
(***************************************************************************)
None == <<>>
Some(x) == <<x>>

Ok(v) == [ok |-> TRUE, val |-> v]
Err(e) == [ok |-> FALSE, err |-> e]

UndefinedEnvironmentVariable(name) ==
    [kind |-> "UndefinedEnvironmentVariable", arg |-> name]
IoFailure == [kind |-> "IoFailure", arg |-> <<>>]

Keyed(path, key) == [path |-> path, key |-> key]

(***************************************************************************)
(* interpolate_env_vars                                                    *)
(***************************************************************************)
NoMatch == [found |-> FALSE, name |-> <<>>, end |-> 0]

RECURSIVE IdentEnd(_, _)
\* The position just past the greedy run [a-zA-Z0-9_]* that starts at i.
IdentEnd(s, i) ==
    IF i <= Len(s) /\ IsIdentCont(s[i]) THEN IdentEnd(s, i + 1) ELSE i

\* The bare alternative of RE at position i: \$ name
MatchBare(s, i) ==
    IF i + 1 <= Len(s) /\ s[i] = "$" /\ IsIdentStart(s[i + 1])
    THEN [found |-> TRUE,
          name |-> SubSeq(s, i + 1, IdentEnd(s, i + 1) - 1),
          end |-> IdentEnd(s, i + 1)]
    ELSE NoMatch

\* The braced alternative of RE at position i: \$ \{ name2 \}
MatchBraced(s, i) ==
    IF /\ i + 2 <= Len(s)
       /\ s[i] = "$"
       /\ s[i + 1] = "{"
       /\ IsIdentStart(s[i + 2])
       /\ IdentEnd(s, i + 2) <= Len(s)
       /\ s[IdentEnd(s, i + 2)] = "}"
    THEN [found |-> TRUE,
          name |-> SubSeq(s, i + 2, IdentEnd(s, i + 2) - 1),
          end |-> IdentEnd(s, i + 2) + 1]
    ELSE NoMatch

MatchRefBareOnly(s, i) == MatchBare(s, i)

\* RE at position i: the first alternative that matches.
MatchRef(s, i) ==
    IF MatchBare(s, i).found THEN MatchBare(s, i) ELSE MatchBraced(s, i)

RecordFirstUndefined(undefined_env_var, name) ==
    IF undefined_env_var = None THEN Some(name) ELSE undefined_env_var

\* The closure's assignment undefined_env_var = Some(name).
RecordUndefined(undefined_env_var, name) == Some(name)

ReplacementKeepsReference(e, name, undefined_env_var) ==
    IF name \in DOMAIN e
    THEN [s |-> <<"$">> \o name, undefined_env_var |-> undefined_env_var]
    ELSE [s |-> <<>>,
          undefined_env_var |-> RecordUndefined(undefined_env_var, name)]

\* The closure given to replace_all: the replacement for one match and the
\* captured undefined_env_var after it.
Replacement(e, name, undefined_env_var) ==
    IF name \in DOMAIN e
    THEN [s |-> e[name], undefined_env_var |-> undefined_env_var]
    ELSE [s |-> <<>>,
          undefined_env_var |-> RecordUndefined(undefined_env_var, name)]

RECURSIVE ReplaceAll(_, _, _, _, _)
\* RE.replace_all: the leftmost matches, left to right, without overlap;
\* what lies between them is copied.
ReplaceAll(s, e, i, out, undefined_env_var) ==
    IF i > Len(s)
    THEN [out |-> out, undefined_env_var |-> undefined_env_var]
    ELSE IF MatchRef(s, i).found
         THEN LET m == MatchRef(s, i)
                  r == Replacement(e, m.name, undefined_env_var)
              IN  ReplaceAll(s, e, m.end, out \o r.s, r.undefined_env_var)
         ELSE ReplaceAll(s, e, i + 1, Append(out, s[i]), undefined_env_var)

InterpolateIgnoresUndefined(s, e) ==
    Ok(ReplaceAll(s, e, 1, <<>>, None).out)

interpolate_env_vars(s, e) ==
    LET r == ReplaceAll(s, e, 1, <<>>, None)
    IN  IF r.undefined_env_var = None
        THEN Ok(r.out)
        ELSE Err(UndefinedEnvironmentVariable(r.undefined_env_var[1]))

(***************************************************************************)
(* The line regular expression of Secretfile::read                         *)
(***************************************************************************)
RECURSIVE SkipSpace(_, _)
\* The position just past the greedy run \s* that starts at i.
SkipSpace(s, i) ==
    IF i <= Len(s) /\ IsSpace(s[i]) THEN SkipSpace(s, i + 1) ELSE i

RECURSIVE SkipNonSpace(_, _)
\* The position just past the greedy run \S* that starts at i.
SkipNonSpace(s, i) ==
    IF i <= Len(s) /\ ~IsSpace(s[i]) THEN SkipNonSpace(s, i + 1) ELSE i

MalformedLineTrimmed(line) ==
    [kind |-> "MalformedLine",
     arg |-> SubSeq(line, SkipSpace(line, 1), Len(line))]

\* err(format!("Error parsing Secretfile line: {}", &line))
MalformedLine(line) == [kind |-> "MalformedLine", arg |-> line]

NoCaptures ==
    [matched |-> FALSE, has_name |-> FALSE,
     name |-> <<>>, path |-> <<>>, key |-> <<>>]

BlankCaptures ==
    [matched |-> TRUE, has_name |-> FALSE,
     name |-> <<>>, path |-> <<>>, key |-> <<>>]

\* First alternative: ^ \s* (?: \# .* )? $
MatchBlank(line) ==
    LET j == SkipSpace(line, 1)
    IN  j > Len(line) \/ line[j] = "#"

RECURSIVE LastColon(_, _, _)
LastColon(line, j, c) ==
    IF c - 2 < j THEN 0
    ELSE IF line[c - 2] = ":" THEN c - 2
    ELSE LastColon(line, j, c - 1)

RECURSIVE LazyColon(_, _, _)
\* (?P<path>\S+?):(?P<key>\S+) inside the token that ends before c: the
\* path so far ends before j; the lazy path grows until a colon follows it
\* and leaves a key of at least one character.  0 when there is none.
LazyColon(line, j, c) ==
    IF j > c - 2 THEN 0
    ELSE IF line[j] = ":" THEN j
    ELSE LazyColon(line, j + 1, c)

\* Second alternative: ^ (\S+) \s+ (\S+?) : (\S+) \s* $
MatchEntry(line) ==
    LET a == SkipNonSpace(line, 1)
        b == SkipSpace(line, a)
        c == SkipNonSpace(line, b)
        d == SkipSpace(line, c)
        j == LazyColon(line, b + 1, c)
    IN  IF a > 1 /\ b > a /\ c > b /\ d > Len(line) /\ j > 0
        THEN [matched |-> TRUE, has_name |-> TRUE,
              name |-> SubSeq(line, 1, a - 1),
              path |-> SubSeq(line, b, j - 1),
              key |-> SubSeq(line, j + 1, c - 1)]
        ELSE NoCaptures

CapturesEntryFirst(line) ==
    IF MatchEntry(line).matched THEN MatchEntry(line)
    ELSE IF MatchBlank(line) THEN BlankCaptures ELSE NoCaptures

\* re.captures(&line): the alternatives are tried in order.
Captures(line) ==
    IF MatchBlank(line) THEN BlankCaptures ELSE MatchEntry(line)

(***************************************************************************)
(* The table                                                               *)
(***************************************************************************)
EmptyMap == [n \in {} |-> Keyed(<<>>, <<>>)]

InsertKeepsFirst(m, name, location) ==
    [n \in DOMAIN m \cup {name} |-> IF n \in DOMAIN m THEN m[n] ELSE location]

\* BTreeMap::insert
Insert(m, name, location) ==
    [n \in DOMAIN m \cup {name} |-> IF n = name THEN location ELSE m[n]]

\* Secretfile::get
get(sf, name) == IF name \in DOMAIN sf THEN Some(sf[name]) ELSE None

(***************************************************************************)
(* Inputs                                                                  *)
(***************************************************************************)
Strings(S, n) == UNION {[1..k -> S] : k \in 0..n}

\* The environments: A and B are each undefined or have one of their values;
\* every other name is undefined.
VarNames == {<<"A">>, <<"B">>}
ValuesOf(x) == IF x = <<"A">> THEN {<<"v">>, <<"$", "B">>} ELSE {<<"v">>}
Envs ==
    UNION {{e \in [D -> {<<"v">>, <<"$", "B">>}] : \A x \in D : e[x] \in ValuesOf(x)} :
             D \in SUBSET VarNames}

Line(l) == [ok |-> TRUE, line |-> l]
IoError == [ok |-> FALSE, line |-> <<>>]

\* Every line of at most MaxLineLen characters over LineChars, as a file of
\* one item; such a line can name no variable but A, AA, ...
LineChars == {" ", "#", ":", "$", "A"}
ShortLines == {Line(l) : l \in Strings(LineChars, MaxLineLen)}
ShortFiles == {<<l>> : l \in ShortLines \cup {IoError}}
ShortEnvs == {e \in Envs : DOMAIN e \subseteq {<<"A">>}}

\* Entry-shaped lines NAME PATH:KEY and a few others, for longer files.
Names == {<<"N">>, <<"M">>}
Paths == {<<"p">>, <<"$", "A">>, <<"$", "{", "A", "}">>, <<"$", "$", "A">>,
          <<"p", ":", "q">>}
Entry(n, p, k) == Line(n \o <<" ">> \o p \o <<":">> \o k)
EntryLines ==
    {Entry(n, p, <<"k">>) : n \in Names, p \in Paths}
    \cup {Entry(<<"N">>, <<"$", "A">>, <<"$", "B">>)}
OtherLines ==
    {Line(<<>>),
     Line(<<"#", "N", " ", "$", "B", ":", "k">>),
     Line(<<"N", " ", "p">>),
     IoError}
LongLines == EntryLines \cup OtherLines
LongFiles == UNION {[1..k -> LongLines] : k \in 0..MaxLines}

\* Every text of at most MaxTextLen characters over TextChars.
TextChars == {"$", "{", "}", "A", "B", "1"}
Texts == Strings(TextChars, MaxTextLen)

(***************************************************************************)
(* Secretfile::read                                                        *)
(***************************************************************************)
Init ==
    /\ \/ env \in ShortEnvs /\ input \in ShortFiles
       \/ env \in Envs /\ input \in LongFiles
    /\ pos = 0
    /\ caps = NoCaptures
    /\ mappings = EmptyMap
    /\ pc = "reading"
    /\ ret = [ok |-> FALSE, err |-> [kind |-> "None", arg |-> <<>>]]
    /\ text = <<>>
    /\ interpolated = Ok(<<>>)

\* The loop body is about to take item pos + 1 of buffer.lines().
Taking == pc = "reading" /\ pos < Len(input)

Current == input[pos + 1]

Return(r) ==
    /\ pc' = "returned"
    /\ ret' = r

\* try!(line_or_err) on an I/O error: no line, so nothing is captured.
FailIo ==
    /\ Taking
    /\ ~Current.ok
    /\ pos' = pos + 1
    /\ caps' = NoCaptures
    /\ Return(Err(IoFailure))
    /\ UNCHANGED <<env, input, mappings, text, interpolated>>

ReadEntryInterpolatesKey ==
    /\ Taking
    /\ Current.ok
    /\ LET c == Captures(Current.line)
           p == interpolate_env_vars(c.path, env)
           k == interpolate_env_vars(c.key, env)
       IN  /\ c.matched /\ c.has_name
           /\ p.ok
           /\ caps' = c
           /\ mappings' =
                  Insert(mappings, c.name,
                         Keyed(p.val, IF k.ok THEN k.val ELSE c.key))
    /\ pos' = pos + 1
    /\ UNCHANGED <<env, input, pc, ret, text, interpolated>>

\* Some(ref caps) if caps.name("name").is_some(), interpolation succeeds.
ReadEntry ==
    /\ Taking
    /\ Current.ok
    /\ LET c == Captures(Current.line)
           p == interpolate_env_vars(c.path, env)
       IN  /\ c.matched /\ c.has_name
           /\ p.ok
           /\ caps' = c
           /\ mappings' = Insert(mappings, c.name, Keyed(p.val, c.key))
    /\ pos' = pos + 1
    /\ UNCHANGED <<env, input, pc, ret, text, interpolated>>

\* Some(ref caps) if caps.name("name").is_some(), try!(interpolate_env_vars)
\* returns the error.
FailInterpolate ==
    /\ Taking
    /\ Current.ok
    /\ LET c == Captures(Current.line)
           p == interpolate_env_vars(c.path, env)
       IN  /\ c.matched /\ c.has_name
           /\ ~p.ok
           /\ caps' = c
           /\ Return(Err(p.err))
    /\ pos' = pos + 1
    /\ UNCHANGED <<env, input, mappings, text, interpolated>>

\* Some(_): blank or comment.
SkipBlank ==
    /\ Taking
    /\ Current.ok
    /\ LET c == Captures(Current.line)
       IN  /\ c.matched /\ ~c.has_name
           /\ caps' = c
    /\ pos' = pos + 1
    /\ UNCHANGED <<env, input, mappings, pc, ret, text, interpolated>>

SkipMalformed ==
    /\ Taking
    /\ Current.ok
    /\ LET c == Captures(Current.line)
       IN  /\ ~c.matched
           /\ caps' = c
    /\ pos' = pos + 1
    /\ UNCHANGED <<env, input, mappings, pc, ret, text, interpolated>>

\* _ => return Err("Error parsing Secretfile line: ...")
FailMalformed ==
    /\ Taking
    /\ Current.ok
    /\ LET c == Captures(Current.line)
       IN  /\ ~c.matched
           /\ caps' = c
    /\ pos' = pos + 1
    /\ Return(Err(MalformedLine(Current.line)))
    /\ UNCHANGED <<env, input, mappings, text, interpolated>>

\* The loop is over (caps is out of scope): Ok(sf)
ReturnOk ==
    /\ pc = "reading"
    /\ pos >= Len(input)
    /\ caps' = NoCaptures
    /\ Return(Ok(mappings))
    /\ UNCHANGED <<env, input, pos, mappings, text, interpolated>>

Next ==
    \/ FailIo
    \/ ReadEntry
    \/ FailInterpolate
    \/ SkipBlank
    \/ FailMalformed
    \/ ReturnOk

Spec == Init /\ [][Next]_vars

(***************************************************************************)
(* interpolate_env_vars called on its own                                  *)
(***************************************************************************)
InitInterpolate ==
    /\ env \in Envs
    /\ text \in Texts
    /\ pc = "call"
    /\ interpolated = Ok(<<>>)
    /\ input = <<>>
    /\ pos = 0
    /\ caps = NoCaptures
    /\ mappings = EmptyMap
    /\ ret = [ok |-> FALSE, err |-> [kind |-> "None", arg |-> <<>>]]

Interpolate ==
    /\ pc = "call"
    /\ interpolated' = interpolate_env_vars(text, env)
    /\ pc' = "returned"
    /\ UNCHANGED <<env, input, pos, caps, mappings, ret, text>>

NextInterpolate == Interpolate

SpecInterpolate == InitInterpolate /\ [][NextInterpolate]_vars

(***************************************************************************)
(* Vocabulary of the properties, stated on the text itself.                *)
(***************************************************************************)
Min(S) == CHOOSE x \in S : \A y \in S : x <= y

Chars(s) == {s[i] : i \in 1..Len(s)}

NonSpaceAt(line) == {i \in 1..Len(line) : ~IsSpace(line[i])}

\* Optional whitespace, then the end of the line or a # and anything.
IsBlankOrComment(line) ==
    NonSpaceAt(line) = {} \/ line[Min(NonSpaceAt(line))] = "#"

\* The positions where a whitespace-separated token starts.
TokenStarts(line) ==
    {i \in NonSpaceAt(line) : i = 1 \/ IsSpace(line[i - 1])}

TokenFrom(line, i) ==
    SubSeq(line, i,
           Min({e \in i..Len(line) : e = Len(line) \/ IsSpace(line[e + 1])}))

NumTokens(line) == Cardinality(TokenStarts(line))

SecondToken(line) ==
    TokenFrom(line, Min(TokenStarts(line) \ {Min(TokenStarts(line))}))

ColonsFrom(tok, i) == {j \in i..Len(tok) : tok[j] = ":"}

\* Every way to read a line as NAME PATH:KEY: three non-empty runs of
\* non-whitespace characters, whitespace between the first two and a colon
\* between the last two.
EntryReadings(line) ==
    LET L == Len(line)
    IN  {[name |-> SubSeq(line, 1, t[1]),
          path |-> SubSeq(line, t[2], t[3] - 1),
          key |-> SubSeq(line, t[3] + 1, L)] :
            t \in {u \in (1..L) \X (1..L) \X (1..L) :
                     /\ u[1] + 2 <= u[2]
                     /\ u[2] + 1 <= u[3]
                     /\ u[3] + 1 <= L
                     /\ line[u[3]] = ":"
                     /\ \A i \in 1..u[1] : ~IsSpace(line[i])
                     /\ \A i \in (u[1] + 1)..(u[2] - 1) : IsSpace(line[i])
                     /\ \A i \in u[2]..L : ~IsSpace(line[i])}}

RECURSIVE References(_, _)
\* The names of the references RE finds in s from position i on, in order.
References(s, i) ==
    IF i > Len(s) THEN <<>>
    ELSE IF MatchBare(s, i).found
         THEN <<MatchBare(s, i).name>> \o References(s, MatchBare(s, i).end)
    ELSE IF MatchBraced(s, i).found
         THEN <<MatchBraced(s, i).name>> \o References(s, MatchBraced(s, i).end)
    ELSE References(s, i + 1)

ReferencedNames(s) == Chars(References(s, 1))

UndefinedReferences(s) ==
    SelectSeq(References(s, 1), LAMBDA n : n \notin DOMAIN env)

\* s contains $NAME or ${NAME} reference syntax.
HasReference(s) == References(s, 1) # <<>>

\* Every $ of s begins a reference.
EveryDollarBeginsReference(s) ==
    \A i \in 1..Len(s) :
        s[i] = "$" => MatchBare(s, i).found \/ MatchBraced(s, i).found

Returned == pc = "returned"

Lines == {i \in 1..Len(input) : input[i].ok}

\* Item i of the input makes read fail when read reaches it.
Fails(i) ==
    \/ ~input[i].ok
    \/ ~Captures(input[i].line).matched
    \/ /\ Captures(input[i].line).has_name
       /\ ~interpolate_env_vars(Captures(input[i].line).path, env).ok

ErrorOf(i) ==
    IF ~input[i].ok THEN IoFailure
    ELSE IF ~Captures(input[i].line).matched THEN MalformedLine(input[i].line)
    ELSE interpolate_env_vars(Captures(input[i].line).path, env).err

Failing == {i \in 1..Len(input) : Fails(i)}

\* No item of the input is an I/O error or a line the grammar rejects.
EveryLineMatches ==
    \A i \in 1..Len(input) : input[i].ok /\ Captures(input[i].line).matched

\* Line i is read as an entry line.
IsEntry(i) == input[i].ok /\ Captures(input[i].line).has_name

EveryReferenceDefined ==
    \A i \in Lines : ReferencedNames(input[i].line) \subseteq DOMAIN env

(***************************************************************************)
(* C1                                                                      *)
(***************************************************************************)
\* C1, as claimed (and granting it inputs in which no line is rejected by
\* the grammar): for every line that reads as NAME PATH:KEY, when every
\* variable referenced in the file is defined and no later line reads as an
\* entry of the same NAME, read succeeds and get(NAME) is
\* Keyed(interpolate(PATH), KEY).
C1_AsClaimed ==
    Returned /\ EveryLineMatches /\ EveryReferenceDefined =>
        \A i \in Lines : \A d \in EntryReadings(input[i].line) :
            (\A k \in Lines : k > i =>
                \A x \in EntryReadings(input[k].line) : x.name # d.name)
            => /\ ret.ok
               /\ get(ret.val, d.name) =
                      Some(Keyed(interpolate_env_vars(d.path, env).val, d.key))

\* The readings C1 holds for: NAME does not begin with #, and PATH has no
\* colon after its first character.
C1_Covered(d) ==
    /\ d.name[1] # "#"
    /\ ColonsFrom(d.path, 2) = {}

C1_NotLater(i, d) ==
    \A k \in Lines : k > i /\ IsEntry(k) =>
        Captures(input[k].line).name # d.name

\* C1, amended: for every line NAME PATH:KEY whose NAME does not begin with
\* # and whose PATH has no colon after its first character, when no item of
\* the input fails to be read or to match the grammar, every variable
\* referenced in the file is defined and NAME is not declared again later,
\* read succeeds and get(NAME) is Keyed(interpolate(PATH), KEY), KEY as
\* written.
C1_EntryLookup ==
    Returned /\ EveryLineMatches /\ EveryReferenceDefined
    => \A i \in Lines : \A d \in EntryReadings(input[i].line) :
           C1_Covered(d) /\ C1_NotLater(i, d)
           => /\ ret.ok
              /\ get(ret.val, d.name) =
                     Some(Keyed(interpolate_env_vars(d.path, env).val, d.key))

\* A two-line file whose first line has a covered reading with a reference
\* in PATH and a reference in KEY, and was looked up after a successful read.
C1_Witness ==
    /\ Returned /\ ret.ok
    /\ Len(input) = 2
    /\ EveryReferenceDefined
    /\ \E d \in EntryReadings(input[1].line) :
           /\ C1_Covered(d) /\ C1_NotLater(1, d)
           /\ HasReference(d.path) /\ HasReference(d.key)

(***************************************************************************)
(* C2                                                                      *)
(***************************************************************************)
\* C2: read takes the items in order and stops at the first failing one
\* (an I/O error, a grammar mismatch or an interpolation failure): while it
\* reads, nothing it has taken fails; when it has returned and an item
\* fails, the result is the error of the earliest failing item, that item
\* is the last one taken, and the result holds no table; when none fails,
\* every item was taken and the result is the table.
C2_FirstErrorStops ==
    /\ pc = "reading" => \A i \in 1..pos : ~Fails(i)
    /\ Returned /\ Failing # {} =>
           /\ ~ret.ok
           /\ ret.err = ErrorOf(Min(Failing))
           /\ pos = Min(Failing)
           /\ "val" \notin DOMAIN ret
    /\ Returned /\ Failing = {} =>
           /\ ret.ok
           /\ pos = Len(input)

\* Two failing lines with different errors, the first one reported.
C2_Witness ==
    /\ Returned
    /\ Len(input) = 2
    /\ Failing = {1, 2}
    /\ ErrorOf(1).kind = "UndefinedEnvironmentVariable"
    /\ ErrorOf(2).kind = "MalformedLine"
    /\ pos = 1

(***************************************************************************)
(* C3                                                                      *)
(***************************************************************************)
\* C3, as claimed (and granting it inputs in which no line is rejected by
\* the grammar): when a line references an undefined variable and nothing
\* before it fails, read fails with the undefined-variable error.
C3_AsClaimed ==
    Returned /\ EveryLineMatches =>
        \A i \in Lines :
            /\ ~(ReferencedNames(input[i].line) \subseteq DOMAIN env)
            /\ \A k \in 1..(i - 1) : ~Fails(k)
            => ~ret.ok /\ ret.err.kind = "UndefinedEnvironmentVariable"

\* C3, amended: when the PATH of an entry line references an undefined
\* variable and nothing before that line fails, read fails with the
\* undefined-variable error.
C3_UndefinedInPath ==
    Returned =>
        \A i \in Lines :
            /\ ~IsBlankOrComment(input[i].line)
            /\ \E d \in EntryReadings(input[i].line) :
                   /\ ColonsFrom(d.path, 2) = {}
                   /\ ~(ReferencedNames(d.path) \subseteq DOMAIN env)
            /\ \A k \in 1..(i - 1) : ~Fails(k)
            => ~ret.ok /\ ret.err.kind = "UndefinedEnvironmentVariable"

\* A valid entry line, then a line whose PATH references an undefined
\* variable.
C3_Witness ==
    /\ Returned
    /\ Len(input) = 2
    /\ IsEntry(1) /\ ~Fails(1)
    /\ input[2].ok /\ ~IsBlankOrComment(input[2].line)
    /\ \E d \in EntryReadings(input[2].line) :
           /\ ColonsFrom(d.path, 2) = {}
           /\ ~(ReferencedNames(d.path) \subseteq DOMAIN env)
    /\ ~ret.ok

(***************************************************************************)
(* C4                                                                      *)
(***************************************************************************)
SeveralUndefined ==
    Cardinality(Chars(UndefinedReferences(text))) >= 2

\* C4, as claimed: on a text that references several undefined variables,
\* interpolate_env_vars fails and the error names the first of them in the
\* order of the text.
C4_AsClaimed ==
    Returned /\ SeveralUndefined =>
        /\ ~interpolated.ok
        /\ interpolated.err =
               UndefinedEnvironmentVariable(UndefinedReferences(text)[1])

\* C4, amended: on a text that references several undefined variables,
\* interpolate_env_vars fails and the error names the last undefined
\* reference in the order of the text.
C4_LastUndefined ==
    Returned /\ SeveralUndefined =>
        /\ ~interpolated.ok
        /\ interpolated.err =
               UndefinedEnvironmentVariable(
                   UndefinedReferences(text)[Len(UndefinedReferences(text))])

\* A call on a text with two different undefined references has returned.
C4_Witness ==
    /\ Returned /\ SeveralUndefined
    /\ UndefinedReferences(text)[1] #
           UndefinedReferences(text)[Len(UndefinedReferences(text))]

(***************************************************************************)
(* C5                                                                      *)
(***************************************************************************)
EntriesOf(name) ==
    {i \in Lines : IsEntry(i) /\ Captures(input[i].line).name = name}

Max(S) == CHOOSE x \in S : \A y \in S : x >= y

LocationOf(i) ==
    Keyed(interpolate_env_vars(Captures(input[i].line).path, env).val,
          Captures(input[i].line).key)

\* C5: when read succeeds, get(NAME) is the location of the last entry line
\* that declares NAME, for every NAME an entry line declares, also one
\* declared several times.
C5_LastWins ==
    Returned /\ ret.ok =>
        \A i \in Lines : IsEntry(i) =>
            LET name == Captures(input[i].line).name
            IN  get(ret.val, name) = Some(LocationOf(Max(EntriesOf(name))))

\* Two entry lines declare the same NAME with different locations and read
\* has succeeded.
C5_Witness ==
    /\ Returned /\ ret.ok
    /\ Len(input) = 2
    /\ IsEntry(1) /\ IsEntry(2)
    /\ Captures(input[1].line).name = Captures(input[2].line).name
    /\ LocationOf(1) # LocationOf(2)

(***************************************************************************)
(* C6                                                                      *)
(***************************************************************************)
\* The line has a second token and it holds no colon, or the line is a
\* single token (no whitespace separates a name from a path).
C6_Case(line) ==
    \/ NumTokens(line) >= 2 /\ ":" \notin Chars(SecondToken(line))
    \/ NumTokens(line) = 1

C6_Rejected(i) ==
    /\ Returned
    /\ pos = i
    /\ ~ret.ok
    /\ ret.err = [kind |-> "MalformedLine", arg |-> input[i].line]

\* C6, as claimed: every line with no colon in its second token, or with
\* no whitespace between name and path, is rejected as malformed once read
\* takes it, and the error carries the line unchanged.
C6_AsClaimed ==
    \A i \in Lines : i <= pos /\ C6_Case(input[i].line) => C6_Rejected(i)

\* C6, amended: every line that is not a blank or comment line and has no
\* colon in its second token, or is a single token, is rejected as
\* malformed once read takes it, and the error carries the line unchanged.
C6_MalformedRejected ==
    \A i \in Lines :
        /\ i <= pos
        /\ ~IsBlankOrComment(input[i].line)
        /\ C6_Case(input[i].line)
        => C6_Rejected(i)

\* A line of two tokens, the second one without a colon, was rejected.
C6_Witness ==
    /\ Returned /\ pos >= 1 /\ input[pos].ok
    /\ ~IsBlankOrComment(input[pos].line)
    /\ NumTokens(input[pos].line) >= 2
    /\ ":" \notin Chars(SecondToken(input[pos].line))
    /\ C6_Rejected(pos)

(***************************************************************************)
(* C7                                                                      *)
(***************************************************************************)
\* C7, as claimed: after a successful read no path of the table contains
\* reference syntax, whatever the environment.
C7_AsClaimed ==
    Returned /\ ret.ok =>
        \A n \in DOMAIN ret.val : ~HasReference(ret.val[n].path)

\* The PATH of entry line i has no $ other than at the start of a
\* reference, and no variable it references has a value that contains $.
C7_Covered(i) ==
    LET path == Captures(input[i].line).path
    IN  /\ EveryDollarBeginsReference(path)
        /\ \A x \in ReferencedNames(path) \cap DOMAIN env :
               "$" \notin Chars(env[x])

\* C7, amended: after a successful read, the stored path of every name
\* whose last entry line has a PATH in which every $ begins a reference,
\* and references only variables whose values contain no $, contains no $
\* and so no reference syntax.
C7_PathResolved ==
    Returned /\ ret.ok =>
        \A n \in DOMAIN ret.val :
            EntriesOf(n) # {} /\ C7_Covered(Max(EntriesOf(n)))
            => /\ "$" \notin Chars(ret.val[n].path)
               /\ ~HasReference(ret.val[n].path)

\* A stored path that came from a covered PATH with a braced reference.
C7_Witness ==
    /\ Returned /\ ret.ok
    /\ \E n \in DOMAIN ret.val :
           /\ EntriesOf(n) # {} /\ C7_Covered(Max(EntriesOf(n)))
           /\ \E i \in 1..Len(Captures(input[Max(EntriesOf(n))].line).path) :
                  MatchBraced(Captures(input[Max(EntriesOf(n))].line).path, i).found

(***************************************************************************)
(* C8                                                                      *)
(***************************************************************************)
FirstToken(line) == TokenFrom(line, Min(TokenStarts(line)))

\* C8: blank and comment lines never make read fail and produce no table
\* entry: a failed read stopped at a line that is not blank or comment,
\* every name of the table is the first token of a line taken that is not
\* blank or comment, and a read of blank and comment lines alone succeeds
\* with a table in which get finds no name.
C8_CommentsInert ==
    /\ Returned /\ ~ret.ok =>
           ~(input[pos].ok /\ IsBlankOrComment(input[pos].line))
    /\ \A n \in DOMAIN mappings :
           \E i \in Lines :
               /\ i <= pos
               /\ ~IsBlankOrComment(input[i].line)
               /\ FirstToken(input[i].line) = n
    /\ Returned /\ (\A i \in 1..Len(input) :
                        input[i].ok /\ IsBlankOrComment(input[i].line))
           => /\ ret.ok
              /\ DOMAIN ret.val = {}
              /\ \A n \in Names : get(ret.val, n) = None

\* A read succeeded over a comment line that reads as NAME PATH:KEY and
\* references an undefined variable.
C8_Witness ==
    /\ Returned /\ ret.ok
    /\ \E i \in Lines :
           /\ IsBlankOrComment(input[i].line)
           /\ EntryReadings(input[i].line) # {}
           /\ ~(ReferencedNames(input[i].line) \subseteq DOMAIN env)

(***************************************************************************)
(* C9                                                                      *)
(***************************************************************************)
Bare(x) == <<"$">> \o x
Braced(x) == <<"$", "{">> \o x \o <<"}">>

\* C9: for every defined variable X, interpolate_env_vars of $X and of
\* ${X} both succeed with the value of X.
C9_BareAndBracedAgree ==
    Returned =>
        \A x \in DOMAIN env :
            text \in {Bare(x), Braced(x)} => interpolated = Ok(env[x])

\* The call on the braced form of a defined variable has returned.
C9_Witness ==
    /\ Returned
    /\ \E x \in DOMAIN env : text = Braced(x) /\ interpolated.ok

(***************************************************************************)
(* C10                                                                     *)
(***************************************************************************)
C10_Split(tok, j) ==
    /\ caps.path = SubSeq(tok, 1, j - 1)
    /\ caps.key = SubSeq(tok, j + 1, Len(tok))

\* C10, as claimed: for every accepted entry line, PATH is the text of the
\* second token before its first colon and KEY is everything after that
\* colon.
C10_AsClaimed ==
    caps.has_name =>
        LET tok == SecondToken(input[pos].line)
        IN  C10_Split(tok, Min(ColonsFrom(tok, 1)))

\* C10, amended: for every accepted entry line, the separator is the first
\* colon of the second token that is not its first character: PATH is the
\* text before it, KEY everything after it, further colons included; and
\* the entry stored has that KEY.
C10_FirstColonAfterFirstChar ==
    caps.has_name =>
        LET tok == SecondToken(input[pos].line)
        IN  /\ C10_Split(tok, Min(ColonsFrom(tok, 2)))
            /\ pc = "reading" => mappings[caps.name].key = caps.key

\* An accepted entry line whose second token holds colons after the
\* separator.
C10_Witness ==
    /\ caps.has_name
    /\ pc = "reading"
    /\ ":" \in Chars(caps.key)

====
